---- MODULE Spec2Model ----
(***************************************************************************)
(* Model of mmg (src/mmg.go): the outbound mail pipeline of GUI.sendEmail, *)
(* the esub token and the template list.                                   *)
(* The source file holds two versions of the program (lines 1-884 and      *)
(* lines 885-1593); the variable "version" says which one is running.      *)
(* Strings are sequences of one-character strings.                         *)
(***************************************************************************)
EXTENDS Integers, Sequences, FiniteSets, TLC

VARIABLES
    version,        \* 1: first program of src/mmg.go, 2: second program
    messageEnt,     \* g.messageEnt.Text, the composed text
    hostEnt,        \* g.hostEnt.Text
    portEnt,        \* g.portEnt.Text
    socksPortEnt,   \* g.socksPortEnt.Text
    usernameEnt,    \* g.usernameEnt.Text
    passwordEnt,    \* g.passwordEnt.Text
    sessions,       \* one record per background task started by sendEmail
    uiQueue,        \* functions handed to the UI thread (fyne.Do / fyne.DoAndWait)
    labelLog,       \* per session, the texts statusLabel.SetText received
    statusLabel,    \* g.statusLabel.Text
    dialogs,        \* error dialogs shown, in order
    rejected,       \* number of send requests ended by the address precondition
    crashed,        \* TRUE once a runtime panic has ended the program
    edits,          \* number of foreground edits of the configuration entries
    esubKey,        \* e.key of the esub value in use, a byte string
    esubSubject,    \* e.subject of the esub value in use
    esubGen,        \* the last call of esubgen: its key, nonce and token
    esubTest,       \* the last call of esubtest: its key, subject, result and work
    templates,      \* g.templates
    selectedTemplate, \* g.selectedTemplate, an index counted from 0, or -1
    templateName,   \* g.templateName.Text
    templateDesc,   \* g.templateDesc.Text
    templateEditor  \* g.templateEditor.Text

vars == <<version, messageEnt, hostEnt, portEnt, socksPortEnt, usernameEnt, passwordEnt, sessions,
          uiQueue, labelLog, statusLabel, dialogs, rejected, crashed, edits,
          esubKey, esubSubject, esubGen, esubTest,
          templates, selectedTemplate, templateName, templateDesc, templateEditor>>

----------------------------------------------------------------------------
(* Bounds *)

MaxSessions == 2
MaxRejected == 1
MaxEdits == 1
MaxQueue == 2
MaxHeaderLines == 4
MaxTemplates == 3
MaxDialogs == 1

----------------------------------------------------------------------------
(* Go's strings package, as far as sendEmail uses it *)

CR == "\r"
LF == "\n"
CRLF == <<CR, LF>>
CRLFCRLF == <<CR, LF, CR, LF>>
ColonSpace == <<":", " ">>

HasPrefix(s, p) ==
    /\ Len(s) >= Len(p)
    /\ SubSeq(s, 1, Len(p)) = p

\* pat occurs in s at position i
MatchAt(s, pat, i) == \A k \in 1..Len(pat) : s[i + k - 1] = pat[k]

RECURSIVE IndexFrom(_, _, _)
IndexFrom(s, pat, i) ==
    IF i + Len(pat) - 1 > Len(s) THEN 0
    ELSE IF MatchAt(s, pat, i) THEN i
    ELSE IndexFrom(s, pat, i + 1)

\* strings.Index: 1-based position of the first occurrence of pat, 0 if none
Index(s, pat) == IndexFrom(s, pat, 1)

RECURSIVE LastIndexFrom(_, _, _)
LastIndexFrom(s, pat, i) ==
    IF i < 1 THEN 0
    ELSE IF MatchAt(s, pat, i) THEN i
    ELSE LastIndexFrom(s, pat, i - 1)

\* strings.LastIndex: 1-based position of the last occurrence of pat, 0 if none
LastIndex(s, pat) == LastIndexFrom(s, pat, Len(s) - Len(pat) + 1)

Contains(s, pat) == Index(s, pat) # 0

\* strings.SplitN(s, sep, 2)
SplitN2(s, sep) ==
    LET i == Index(s, sep)
    IN  IF i = 0 THEN <<s>>
        ELSE <<SubSeq(s, 1, i - 1), SubSeq(s, i + Len(sep), Len(s))>>

\* strings.Split(s, sep)
RECURSIVE Split(_, _)
Split(s, sep) ==
    LET i == Index(s, sep)
    IN  IF i = 0 THEN <<s>>
        ELSE <<SubSeq(s, 1, i - 1)>> \o Split(SubSeq(s, i + Len(sep), Len(s)), sep)

\* strings.Join(lines, sep)
RECURSIVE Join(_, _)
Join(lines, sep) ==
    IF Len(lines) = 0 THEN <<>>
    ELSE IF Len(lines) = 1 THEN lines[1]
    ELSE lines[1] \o sep \o Join(Tail(lines), sep)

\* strings.ReplaceAll(s, old, new) for a one-character old
RECURSIVE ReplaceAll(_, _, _)
ReplaceAll(s, old, new) ==
    IF s = <<>> THEN <<>>
    ELSE (IF Head(s) = old THEN new ELSE <<Head(s)>>) \o ReplaceAll(Tail(s), old, new)

WhiteSpace == {" ", "\t", LF, CR}

\* the first position from i on, or the last position up to i, whose
\* character is not in cutset
RECURSIVE FirstKept(_, _, _)
FirstKept(s, cutset, i) ==
    IF i > Len(s) THEN i
    ELSE IF s[i] \notin cutset THEN i
    ELSE FirstKept(s, cutset, i + 1)

RECURSIVE LastKept(_, _, _)
LastKept(s, cutset, i) ==
    IF i < 1 THEN i
    ELSE IF s[i] \notin cutset THEN i
    ELSE LastKept(s, cutset, i - 1)

\* strings.TrimSpace
TrimSpace(s) ==
    SubSeq(s, FirstKept(s, WhiteSpace, 1), LastKept(s, WhiteSpace, Len(s)))

\* strings.TrimRight(s, cutset)
TrimRight(s, cutset) == SubSeq(s, 1, LastKept(s, cutset, Len(s)))

\* the upper-case letters that occur in the modelled texts
LowerOf(c) ==
    CASE c = "F" -> "f" [] c = "T" -> "t" [] c = "S" -> "s" [] c = "D" -> "d"
      [] c = "M" -> "m" [] c = "I" -> "i" [] c = "X" -> "x" [] c = "N" -> "n"
      [] OTHER -> c

\* strings.ToLower
ToLower(s) == [i \in 1..Len(s) |-> LowerOf(s[i])]

----------------------------------------------------------------------------
(* Message assembly *)

normalizeLineEndings(input) == ReplaceAll(input, LF, CRLF)

\* mutant of parseLines: a key that is already in the map keeps its value
RECURSIVE parseLines_FirstWins(_, _, _)
parseLines_FirstWins(lines, k, headers) ==
    IF k > Len(lines) THEN headers
    ELSE IF lines[k] = <<>> THEN headers
    ELSE LET pair == SplitN2(lines[k], ColonSpace)
         IN  IF Len(pair) = 2
             THEN LET key == TrimSpace(ToLower(pair[1]))
                      value == TrimSpace(pair[2])
                  IN  parseLines_FirstWins(lines, k + 1,
                          [h \in (DOMAIN headers) \cup {key} |->
                              IF h \in DOMAIN headers THEN headers[h] ELSE value])
             ELSE parseLines_FirstWins(lines, k + 1, headers)

\* the loop of parseHeaders over lines[k..]: stops at the first empty line,
\* a later line with the same key overwrites the earlier one
RECURSIVE parseLines(_, _, _)
parseLines(lines, k, headers) ==
    IF k > Len(lines) THEN headers
    ELSE IF lines[k] = <<>> THEN headers
    ELSE LET pair == SplitN2(lines[k], ColonSpace)
         IN  IF Len(pair) = 2
             THEN LET key == TrimSpace(ToLower(pair[1]))
                      value == TrimSpace(pair[2])
                  IN  parseLines(lines, k + 1,
                          [h \in (DOMAIN headers) \cup {key} |->
                              IF h = key THEN value ELSE headers[h]])
             ELSE parseLines(lines, k + 1, headers)

EmptyMap == [h \in {} |-> <<>>]

parseHeaders(rawContent) ==
    LET parts == SplitN2(rawContent, CRLFCRLF)
        headerPart == parts[1]
        lines == Split(headerPart, CRLF)
    IN  parseLines(lines, 1, EmptyMap)

\* mutant of isValidEmail: the test for '.' is missing
isValidEmail_AtOnly(email) == Contains(email, <<"@">>)

isValidEmail(email) == Contains(email, <<"@">>) /\ Contains(email, <<".">>)

\* extractEmailFromHeaders; value[start : end+1] panics when end+1 < start
extractEmailFromHeaders(headers, headerKey) ==
    LET key == ToLower(headerKey)
    IN  IF key \in DOMAIN headers
        THEN LET value == headers[key]
             IN  IF Contains(value, <<"<">>) /\ Contains(value, <<">">>)
                 THEN LET start == LastIndex(value, <<"<">>)
                          end == LastIndex(value, <<">">>)
                      IN  IF end < start - 1
                          THEN [panic |-> TRUE, email |-> <<>>]
                          ELSE [panic |-> FALSE, email |-> SubSeq(value, start, end)]
                 ELSE [panic |-> FALSE, email |-> value]
        ELSE [panic |-> FALSE, email |-> <<>>]

KeyFrom == <<"f", "r", "o", "m">>
KeyTo == <<"t", "o">>
KeyMessageID == <<"m", "e", "s", "s", "a", "g", "e", "-", "i", "d">>
KeyDate == <<"d", "a", "t", "e">>
SubjectPrefix == <<"s", "u", "b", "j", "e", "c", "t", ":">>
MessageIDName == <<"M", "e", "s", "s", "a", "g", "e", "-", "I", "D", ":", " ">>
DateName == <<"D", "a", "t", "e", ":", " ">>

\* values generateMessageID can return: "<R.UNIXTS@H.T>", random parts one
\* character long here
GeneratedIDs ==
    { <<"<", "r", ".", "1", "@", "h", ".", "t", ">">>,
      <<"<", "q", ".", "1", "@", "k", ".", "u", ">">> }

\* values of time.Now().UTC().Format(time.RFC1123Z), shortened
GeneratedDates == { <<"1", " ", "+", "0">> }

\* messageIDHeader / dateHeader of sendEmail
messageIDHeaderOf(headers, id) ==
    IF KeyMessageID \notin DOMAIN headers THEN MessageIDName \o id \o CRLF ELSE <<>>

dateHeaderOf(headers, date) ==
    IF KeyDate \notin DOMAIN headers THEN DateName \o date \o CRLF ELSE <<>>

\* the loop of the second program over the header lines: every line is kept,
\* and the synthesized lines follow each line that starts with "subject:"
RECURSIVE spliceHeaders(_, _, _)
spliceHeaders(lines, messageIDHeader, dateHeader) ==
    IF lines = <<>> THEN <<>>
    ELSE LET header == Head(lines)
             ins == IF HasPrefix(ToLower(header), SubjectPrefix)
                    THEN (IF messageIDHeader # <<>>
                          THEN <<TrimRight(messageIDHeader, {CR, LF})>> ELSE <<>>)
                         \o (IF dateHeader # <<>>
                             THEN <<TrimRight(dateHeader, {CR, LF})>> ELSE <<>>)
                    ELSE <<>>
         IN  <<header>> \o ins \o spliceHeaders(Tail(lines), messageIDHeader, dateHeader)

\* the message the first program writes (rawContent after line 786)
assembleV1(rawContent, messageIDHeader, dateHeader) ==
    LET parts == SplitN2(rawContent, CRLFCRLF)
    IN  IF Len(parts) = 2
        THEN parts[1] \o CRLF \o messageIDHeader \o dateHeader \o CRLFCRLF \o parts[2]
        ELSE rawContent \o CRLF \o messageIDHeader \o dateHeader \o CRLF

\* the message the second program writes (fullMessage after line 1470)
assembleV2(rawContent, messageIDHeader, dateHeader) ==
    LET parts == SplitN2(rawContent, CRLFCRLF)
    IN  IF Len(parts) = 2
        THEN Join(spliceHeaders(Split(parts[1], CRLF), messageIDHeader, dateHeader), CRLF)
                 \o CRLFCRLF \o parts[2]
        ELSE rawContent \o CRLF \o messageIDHeader \o dateHeader \o CRLF

assemble(ver, rawContent, messageIDHeader, dateHeader) ==
    IF ver = 1 THEN assembleV1(rawContent, messageIDHeader, dateHeader)
    ELSE assembleV2(rawContent, messageIDHeader, dateHeader)

----------------------------------------------------------------------------
(* Composed texts *)

LineFrom == <<"F", "r", "o", "m", ":", " ", "a", "@", "x", ".", "c">>
LineFromName == <<"F", "r", "o", "m", ":", " ", "N", " ", "<", "a", "@", "x", ".", "c", ">">>
LineFromBad == <<"F", "r", "o", "m", ":", " ", "a", "@", "x">>
LineTo == <<"T", "o", ":", " ", "b", "@", "y", ".", "d">>
LineSubject == <<"S", "u", "b", "j", "e", "c", "t", ":", " ", "h", "i">>
LineSubjectLower == <<"s", "u", "b", "j", "e", "c", "t", ":", " ", "y", "o">>
LineDate == <<"d", "a", "t", "e", ":", " ", "7">>
LineMessageID == <<"M", "e", "s", "s", "a", "g", "e", "-", "I", "d", ":", " ", "<", "m", ">">>
LineX == <<"X", ":", " ", "1">>
\* a second line named X, with a blank before the colon and a second ": "
LineTwice == <<"X", " ", ":", " ", "1", ":", " ", "2">>
\* a To line in lower case with another value
LineToLower == <<"t", "o", ":", " ", "q">>
\* a line without ": "
LineBare == <<"X", "n">>
\* a From line whose last '>' comes before its last '<'
LineFromReversed == <<"F", "r", "o", "m", ":", " ", ">", "a", "@", "x", ".", "c", "<">>

\* lines a header block may hold besides From and To
ExtraLines ==
    {LineSubject, LineSubjectLower, LineDate, LineMessageID, LineX, LineTwice, LineBare,
     LineToLower}

\* header blocks as typed: From, To and further lines, up to MaxHeaderLines
\* distinct lines in any order
HeaderSeqs ==
    UNION { { h \in [1..n -> {LineFrom, LineTo} \cup ExtraLines] :
                /\ \A i, j \in 1..n : i # j => h[i] # h[j]
                /\ \E i \in 1..n : h[i] = LineFrom
                /\ \E i \in 1..n : h[i] = LineTo }
            : n \in 2..MaxHeaderLines }

\* what follows the header lines: nothing (NoBody), one line break
\* (TrailingBreak), or an empty line and a body
NoBody == <<"-">>
TrailingBreak == <<"+">>
BodyDate == <<"d", "a", "t", "e", ":", " ", "9">>
Bodies == { NoBody, TrailingBreak, <<>>, <<"B">>, <<"B", LF, LF, "C">>, BodyDate }
LineEnds == { <<LF>>, CRLF }

\* the text of the entry
Compose(hs, eol, body) ==
    IF body = NoBody THEN Join(hs, eol)
    ELSE IF body = TrailingBreak THEN Join(hs, eol) \o eol
    ELSE Join(hs, eol) \o eol \o eol \o ReplaceAll(body, LF, eol)

AsmTexts == { Compose(hs, eol, body) : hs \in HeaderSeqs, eol \in LineEnds, body \in Bodies }

\* the texts of the pipeline specification
PipeTexts ==
    { Compose(<<LineFrom, LineTo, LineSubject>>, <<LF>>, <<"B">>),
      Compose(<<LineFromName, LineTo, LineDate, LineMessageID>>, <<LF>>, <<"B">>),
      Compose(<<LineFromBad, LineTo>>, <<LF>>, <<"B">>),
      Compose(<<LineFrom, LineSubject>>, <<LF>>, <<"B">>),
      Compose(<<LineFromReversed, LineTo>>, <<LF>>, <<"B">>) }

----------------------------------------------------------------------------
(* The send pipeline *)

None == <<>>

\* status line texts and dialog texts of the stages; a status is <<text, err.Error()>>
StartText(stage) ==
    CASE stage = "ProxyConnect" -> "Connecting to SOCKS proxy..."
      [] stage = "TCPDial" -> "Connecting to SMTP server..."
      [] stage = "SMTPHandshake" -> "Starting SMTP handshake..."
      [] stage = "StartTLS" -> "Starting TLS..."
      [] stage = "Auth" -> "Authenticating..."
      [] stage = "MailFrom" -> "Sending MAIL FROM..."
      [] stage = "RcptTo" -> "Sending RCPT TO..."
      [] stage = "Data" -> "Sending DATA..."

ErrorText(stage) ==
    CASE stage = "ProxyConnect" -> "SOCKS Error: "
      [] stage = "TCPDial" -> "Connection Error: "
      [] stage = "SMTPHandshake" -> "SMTP Init Error: "
      [] stage = "StartTLS" -> "TLS Error: "
      [] stage = "Auth" -> "Auth Error: "
      [] stage = "MailFrom" -> "MAIL FROM Error: "
      [] stage = "RcptTo" -> "RCPT TO Error: "
      [] stage = "Data" -> "DATA Error: "
      [] stage = "Write" -> "Write Error: "

DialogText(stage) ==
    CASE stage = "ProxyConnect" -> "SOCKS5 error: "
      [] stage = "TCPDial" -> "Connection failed: "
      [] stage = "SMTPHandshake" -> "SMTP init failed: "
      [] stage = "StartTLS" -> "TLS failed: "
      [] stage = "Auth" -> "Auth failed: "
      [] stage = "MailFrom" -> "MAIL FROM failed: "
      [] stage = "RcptTo" -> "RCPT TO failed: "
      [] stage = "Data" -> "DATA failed: "
      [] stage = "Write" -> "Message write failed: "

SessionStartText == "Starting SMTP session..."
SuccessText == "Email sent successfully"
InvalidAddressText == "Invalid 'From' or 'To' address"

\* error texts the network calls can return
ErrTexts == {"refused"}

\* values of the configuration entries
Hosts == {"h1", "h2"}
Ports == {"25", "587"}
SocksPorts == {"9050", "9150"}
Usernames == {"", "u"}
Passwords == {"", "p"}

Unread == "?"

\* what one call of fyne.Do (first program) or one fyne.DoAndWait block
\* (second program) hands to the UI thread
Item(sid, label, dialog, wait) ==
    [sid |-> sid, label |-> label, dialog |-> dialog, wait |-> wait]

\* mutant of PostItems: the first program's error path enqueues the dialog only
PostItems_StatusDropped(ver, sid, label, dialog) ==
    IF ver = 1
    THEN IF dialog # None THEN <<Item(sid, None, dialog, FALSE)>>
         ELSE IF label # None THEN <<Item(sid, label, None, FALSE)>>
         ELSE <<>>
    ELSE IF label = None /\ dialog = None THEN <<>>
    ELSE <<Item(sid, label, dialog, TRUE)>>

\* updateStatus / showError of the first program enqueue one function each and
\* return; the second program runs the status and the dialog in one
\* fyne.DoAndWait block and waits for it
PostItems(ver, sid, label, dialog) ==
    IF ver = 1
    THEN (IF label # None THEN <<Item(sid, label, None, FALSE)>> ELSE <<>>)
         \o (IF dialog # None THEN <<Item(sid, None, dialog, FALSE)>> ELSE <<>>)
    ELSE IF label = None /\ dialog = None THEN <<>>
    ELSE <<Item(sid, label, dialog, TRUE)>>

Ready(sid, pc) ==
    /\ ~crashed
    /\ sid \in 1..Len(sessions)
    /\ sessions[sid].pc = pc
    /\ ~sessions[sid].waiting

\* the background task has made the call of "stage" with result ok, reports
\* label/dialog and goes on at nextpc; s is its record with the fields the
\* stage has set
Advance(sid, s, stage, ok, nextpc, label, dialog) ==
    LET posts == PostItems(version, sid, label, dialog)
    IN  /\ Len(uiQueue) + Len(posts) <= MaxQueue
        /\ sessions' = [sessions EXCEPT ![sid] =
               [s EXCEPT !.pc = nextpc,
                         !.stages = Append(@, <<stage, ok>>),
                         !.emitted = IF label # None THEN Append(@, label) ELSE @,
                         !.waiting = (posts # <<>> /\ posts[1].wait)]]
        /\ uiQueue' = uiQueue \o posts

\* mutant of Fail: the return after a MAIL FROM error is missing
Fail_NoReturn(sid, s, stage, e) ==
    Advance(sid, [s EXCEPT !.err = e], stage, FALSE,
            IF stage = "MailFrom" THEN "RcptTo" ELSE "return",
            <<ErrorText(stage), e>>, <<DialogText(stage), e>>)

\* the error return of a stage: error status, error dialog, return
Fail(sid, s, stage, e) ==
    Advance(sid, [s EXCEPT !.err = e], stage, FALSE, "return",
            <<ErrorText(stage), e>>, <<DialogText(stage), e>>)

\* mutant of Pass: RCPT TO is sent before MAIL FROM
Pass_RcptFirst(sid, s, stage, next) ==
    LET to == IF next = "MailFrom" THEN "RcptTo"
              ELSE IF stage = "RcptTo" THEN "MailFrom"
              ELSE IF stage = "MailFrom" THEN "Data"
              ELSE next
    IN  Advance(sid, s, stage, TRUE, to, <<StartText(to), "">>, None)

\* the stage succeeded: the status of the next stage is reported
Pass(sid, s, stage, next) ==
    Advance(sid, s, stage, TRUE, next, <<StartText(next), "">>, None)

UIOnly == <<statusLabel, labelLog, dialogs>>
Entries == <<messageEnt, hostEnt, portEnt, socksPortEnt, usernameEnt, passwordEnt>>
EsubVars == <<esubKey, esubSubject, esubGen, esubTest>>
TplVars == <<templates, selectedTemplate, templateName, templateDesc, templateEditor>>
Fixed == <<version, rejected, crashed, edits, EsubVars, TplVars>>

NewSession(from, to, rawContent, message, messageIDHeader, dateHeader) ==
    [pc |-> "start", from |-> from, to |-> to, rawContent |-> rawContent,
     message |-> message, messageIDHeader |-> messageIDHeader,
     dateHeader |-> dateHeader,
     req |-> [host |-> hostEnt, port |-> portEnt, socksPort |-> socksPortEnt,
              username |-> usernameEnt, password |-> passwordEnt],
     stages |-> <<>>, err |-> "", emitted |-> <<<<SessionStartText, "">>>>,
     defers |-> <<>>, cleanup |-> <<>>, cleanupFailed |-> FALSE,
     waiting |-> FALSE,
     socksUsed |-> Unread, dialHost |-> Unread, dialPort |-> Unread,
     heloHost |-> Unread, chkUser |-> Unread, chkPass |-> Unread,
     authUser |-> Unread, authPass |-> Unread, authHost |-> Unread]

\* GUI.sendEmail, up to the start of the background task; limit bounds the
\* number of background tasks of a run, rejectLimit the number of requests
\* that end at the address precondition. The locals of the function are bound
\* by \E over one-element sets.
SendEmail(limit, rejectLimit) ==
    /\ ~crashed
    /\ Len(sessions) < limit \/ rejected < rejectLimit
    /\ \E rawContent \in {normalizeLineEndings(messageEnt)} :
       \E headers \in {parseHeaders(rawContent)} :
       \E from \in {extractEmailFromHeaders(headers, KeyFrom)},
          to \in {extractEmailFromHeaders(headers, KeyTo)} :
           IF from.panic \/ to.panic
           THEN /\ crashed' = TRUE
                /\ UNCHANGED <<sessions, uiQueue, labelLog, statusLabel, dialogs, rejected>>
           ELSE IF ~isValidEmail(from.email) \/ ~isValidEmail(to.email)
           THEN /\ rejected < rejectLimit
                /\ rejected' = rejected + 1
                /\ IF version = 1
                   THEN /\ Len(uiQueue) < MaxQueue
                        /\ uiQueue' = Append(uiQueue,
                               Item(0, None, <<InvalidAddressText, "">>, FALSE))
                        /\ UNCHANGED dialogs
                   ELSE /\ dialogs' = Append(dialogs, <<0, <<InvalidAddressText, "">>>>)
                        /\ UNCHANGED uiQueue
                /\ UNCHANGED <<sessions, labelLog, statusLabel, crashed>>
           ELSE /\ Len(sessions) < limit
                /\ \E id \in GeneratedIDs, date \in GeneratedDates :
                   \E messageIDHeader \in {messageIDHeaderOf(headers, id)},
                      dateHeader \in {dateHeaderOf(headers, date)} :
                      sessions' = Append(sessions,
                          NewSession(from.email, to.email, rawContent,
                              assemble(version, rawContent, messageIDHeader, dateHeader),
                              messageIDHeader, dateHeader))
                /\ IF version = 1
                   THEN /\ Len(uiQueue) < MaxQueue
                        /\ uiQueue' = Append(uiQueue,
                               Item(Len(sessions) + 1, <<SessionStartText, "">>, None, FALSE))
                        /\ labelLog' = Append(labelLog, <<>>)
                        /\ UNCHANGED statusLabel
                   ELSE /\ statusLabel' = <<SessionStartText, "">>
                        /\ labelLog' = Append(labelLog, <<<<SessionStartText, "">>>>)
                        /\ UNCHANGED uiQueue
                /\ UNCHANGED <<dialogs, rejected, crashed>>
    /\ UNCHANGED <<version, edits, EsubVars, TplVars>>
    /\ UNCHANGED Entries

\* the background task starts and reports the first stage
Begin(sid) ==
    /\ Ready(sid, "start")
    /\ LET posts == PostItems(version, sid, <<StartText("ProxyConnect"), "">>, None)
       IN  /\ Len(uiQueue) + Len(posts) <= MaxQueue
           /\ sessions' = [sessions EXCEPT ![sid].pc = "ProxyConnect",
                  ![sid].emitted = Append(@, <<StartText("ProxyConnect"), "">>),
                  ![sid].waiting = posts[1].wait]
           /\ uiQueue' = uiQueue \o posts
    /\ UNCHANGED <<UIOnly, Entries, Fixed>>

\* proxy.SOCKS5("tcp", "127.0.0.1:"+g.socksPortEnt.Text, nil, proxy.Direct)
ProxyConnect(sid) ==
    /\ Ready(sid, "ProxyConnect")
    /\ LET s == [sessions[sid] EXCEPT !.socksUsed = socksPortEnt]
       IN  \/ Pass(sid, s, "ProxyConnect", "TCPDial")
           \/ \E e \in ErrTexts : Fail(sid, s, "ProxyConnect", e)
    /\ UNCHANGED <<UIOnly, Entries, Fixed>>

\* dialer.Dial("tcp", g.hostEnt.Text+":"+g.portEnt.Text); defer conn.Close()
TCPDial(sid) ==
    /\ Ready(sid, "TCPDial")
    /\ LET s == [sessions[sid] EXCEPT !.dialHost = hostEnt, !.dialPort = portEnt]
       IN  \/ Pass(sid, [s EXCEPT !.defers = <<"conn.Close">> \o @],
                   "TCPDial", "SMTPHandshake")
           \/ \E e \in ErrTexts : Fail(sid, s, "TCPDial", e)
    /\ UNCHANGED <<UIOnly, Entries, Fixed>>

\* mutant of SMTPHandshake: client.Quit is not deferred
SMTPHandshake_NoQuit(sid) ==
    /\ Ready(sid, "SMTPHandshake")
    /\ LET s == [sessions[sid] EXCEPT !.heloHost = hostEnt]
       IN  \/ Pass(sid, s, "SMTPHandshake", "StartTLS")
           \/ \E e \in ErrTexts : Fail(sid, s, "SMTPHandshake", e)
    /\ UNCHANGED <<UIOnly, Entries, Fixed>>

\* smtp.NewClient(conn, g.hostEnt.Text); defer client.Quit()
SMTPHandshake(sid) ==
    /\ Ready(sid, "SMTPHandshake")
    /\ LET s == [sessions[sid] EXCEPT !.heloHost = hostEnt]
       IN  \/ Pass(sid, [s EXCEPT !.defers = <<"client.Quit">> \o @],
                   "SMTPHandshake", "StartTLS")
           \/ \E e \in ErrTexts : Fail(sid, s, "SMTPHandshake", e)
    /\ UNCHANGED <<UIOnly, Entries, Fixed>>

\* mutant of authWanted: || in place of &&
authWanted_Or(username, password) == username # "" \/ password # ""

\* the condition of the Auth block
authWanted(username, password) == username # "" /\ password # ""

\* client.StartTLS(...), then the test of the credentials
StartTLS(sid) ==
    /\ Ready(sid, "StartTLS")
    /\ \/ LET s == [sessions[sid] EXCEPT !.chkUser = usernameEnt,
                                         !.chkPass = passwordEnt]
          IN  IF authWanted(usernameEnt, passwordEnt)
              THEN Pass(sid, s, "StartTLS", "Auth")
              ELSE Pass(sid, s, "StartTLS", "MailFrom")
       \/ \E e \in ErrTexts : Fail(sid, sessions[sid], "StartTLS", e)
    /\ UNCHANGED <<UIOnly, Entries, Fixed>>

\* smtp.PlainAuth("", username, password, host); client.Auth(auth)
Auth(sid) ==
    /\ Ready(sid, "Auth")
    /\ LET s == [sessions[sid] EXCEPT !.authUser = usernameEnt,
                                      !.authPass = passwordEnt,
                                      !.authHost = hostEnt]
       IN  \/ Pass(sid, s, "Auth", "MailFrom")
           \/ \E e \in ErrTexts : Fail(sid, s, "Auth", e)
    /\ UNCHANGED <<UIOnly, Entries, Fixed>>

\* client.Mail(from)
MailFrom(sid) ==
    /\ Ready(sid, "MailFrom")
    /\ \/ Pass(sid, sessions[sid], "MailFrom", "RcptTo")
       \/ \E e \in ErrTexts : Fail(sid, sessions[sid], "MailFrom", e)
    /\ UNCHANGED <<UIOnly, Entries, Fixed>>

\* client.Rcpt(to)
RcptTo(sid) ==
    /\ Ready(sid, "RcptTo")
    /\ \/ Pass(sid, sessions[sid], "RcptTo", "Data")
       \/ \E e \in ErrTexts : Fail(sid, sessions[sid], "RcptTo", e)
    /\ UNCHANGED <<UIOnly, Entries, Fixed>>

\* mutant of Data: the deferred calls run in the order of their registration
Data_CloseLast(sid) ==
    /\ Ready(sid, "Data")
    /\ \/ Advance(sid, [sessions[sid] EXCEPT !.defers = @ \o <<"w.Close">>],
                  "Data", TRUE, "Write", None, None)
       \/ \E e \in ErrTexts : Fail(sid, sessions[sid], "Data", e)
    /\ UNCHANGED <<UIOnly, Entries, Fixed>>

\* client.Data(); defer w.Close(); no status before the write
Data(sid) ==
    /\ Ready(sid, "Data")
    /\ \/ Advance(sid, [sessions[sid] EXCEPT !.defers = <<"w.Close">> \o @],
                  "Data", TRUE, "Write", None, None)
       \/ \E e \in ErrTexts : Fail(sid, sessions[sid], "Data", e)
    /\ UNCHANGED <<UIOnly, Entries, Fixed>>

\* w.Write(message); on success the success status, then the function returns
Write(sid) ==
    /\ Ready(sid, "Write")
    /\ \/ Advance(sid, sessions[sid], "Write", TRUE, "return",
                  <<SuccessText, "">>, None)
       \/ \E e \in ErrTexts : Fail(sid, sessions[sid], "Write", e)
    /\ UNCHANGED <<UIOnly, Entries, Fixed>>

\* mutant of Return: an error of a deferred call is reported as a status
Return_ReportsCleanup(sid) ==
    /\ Ready(sid, "return")
    /\ \E failed \in {f \in BOOLEAN : f => sessions[sid].defers # <<>>} :
          LET label == IF failed THEN <<"QUIT Error: ", "refused">> ELSE None
              posts == PostItems(version, sid, label, None)
          IN  /\ sessions' = [sessions EXCEPT ![sid].pc = "done",
                     ![sid].cleanup = sessions[sid].defers,
                     ![sid].cleanupFailed = failed,
                     ![sid].emitted = IF failed THEN Append(@, label) ELSE @,
                     ![sid].defers = <<>>]
              /\ uiQueue' = uiQueue \o posts
    /\ UNCHANGED <<UIOnly, Entries, Fixed>>

\* the return of the background task: the deferred calls run last-registered
\* first; their results are discarded (cleanupFailed records whether one of
\* them returned an error)
Return(sid) ==
    /\ Ready(sid, "return")
    /\ \E failed \in {f \in BOOLEAN : f => sessions[sid].defers # <<>>} :
          sessions' = [sessions EXCEPT ![sid].pc = "done",
              ![sid].cleanup = sessions[sid].defers,
              ![sid].cleanupFailed = failed,
              ![sid].defers = <<>>]
    /\ UNCHANGED <<uiQueue, UIOnly, Entries, Fixed>>

\* the UI thread runs the next function handed to it
UIRun ==
    /\ ~crashed
    /\ uiQueue # <<>>
    /\ LET item == Head(uiQueue)
       IN  /\ uiQueue' = Tail(uiQueue)
           /\ IF item.label # None
              THEN /\ statusLabel' = item.label
                   /\ labelLog' = [labelLog EXCEPT ![item.sid] = Append(@, item.label)]
              ELSE UNCHANGED <<statusLabel, labelLog>>
           /\ IF item.dialog # None
              THEN dialogs' = Append(dialogs, <<item.sid, item.dialog>>)
              ELSE UNCHANGED dialogs
           /\ IF item.wait
              THEN sessions' = [sessions EXCEPT ![item.sid].waiting = FALSE]
              ELSE UNCHANGED sessions
    /\ UNCHANGED <<Entries, Fixed>>

\* the user types into one of the configuration entries
EditConfig ==
    /\ ~crashed
    /\ edits < MaxEdits
    /\ edits' = edits + 1
    /\ \/ \E v \in Hosts \ {hostEnt} :
             hostEnt' = v /\ UNCHANGED <<portEnt, socksPortEnt, usernameEnt, passwordEnt>>
       \/ \E v \in Ports \ {portEnt} :
             portEnt' = v /\ UNCHANGED <<hostEnt, socksPortEnt, usernameEnt, passwordEnt>>
       \/ \E v \in SocksPorts \ {socksPortEnt} :
             socksPortEnt' = v /\ UNCHANGED <<hostEnt, portEnt, usernameEnt, passwordEnt>>
       \/ \E v \in Usernames \ {usernameEnt} :
             usernameEnt' = v /\ UNCHANGED <<hostEnt, portEnt, socksPortEnt, passwordEnt>>
       \/ \E v \in Passwords \ {passwordEnt} :
             passwordEnt' = v /\ UNCHANGED <<hostEnt, portEnt, socksPortEnt, usernameEnt>>
    /\ UNCHANGED <<version, rejected, crashed, messageEnt, sessions, uiQueue, UIOnly, EsubVars,
                   TplVars>>

\* what the configuration file can hold when it is loaded
ConfigFiles ==
    { [host |-> "h2", port |-> "587", username |-> "u", password |-> "",
       socksPort |-> "9150"] }

\* GUI.loadConfig, run by the "Load Config" button on the UI thread: an error
\* dialog if the file cannot be read or parsed, else the five entries are set
\* from the file (the entries for esub key, hashcash and theme are not part
\* of the model)
LoadConfig ==
    /\ ~crashed
    /\ edits < MaxEdits
    /\ edits' = edits + 1
    /\ \/ /\ dialogs' = Append(dialogs, <<0, <<"Failed to read config: ", "denied">>>>)
          /\ UNCHANGED <<hostEnt, portEnt, socksPortEnt, usernameEnt, passwordEnt>>
       \/ \E config \in ConfigFiles :
             /\ hostEnt' = config.host
             /\ portEnt' = config.port
             /\ usernameEnt' = config.username
             /\ passwordEnt' = config.password
             /\ socksPortEnt' = config.socksPort
             /\ UNCHANGED dialogs
    /\ UNCHANGED <<version, rejected, crashed, messageEnt, sessions, uiQueue,
                   statusLabel, labelLog, EsubVars, TplVars>>

\* the "Clear Canvas" button
ClearCanvas ==
    /\ ~crashed
    /\ messageEnt # <<>>
    /\ messageEnt' = <<>>
    /\ UNCHANGED <<hostEnt, portEnt, socksPortEnt, usernameEnt, passwordEnt,
                   sessions, uiQueue, UIOnly, Fixed>>

----------------------------------------------------------------------------
(* The esub token (first program) *)

NonceSize == 12
EsubLen == 48
EsubBytes == 24
KeySize == 32

HexDigits == <<"0", "1", "2", "3", "4", "5", "6", "7", "8", "9", "a", "b", "c", "d", "e", "f">>

\* hex.EncodeToString: two lower-case digits per byte, high nibble first
EncodeToString(bytes) ==
    [i \in 1..(2 * Len(bytes)) |->
        LET b == bytes[(i + 1) \div 2]
        IN  HexDigits[(IF i % 2 = 1 THEN b \div 16 ELSE b % 16) + 1]]

\* the value of a hex digit in either letter case, -1 for any other character
FromHexChar(c) ==
    CASE c = "0" -> 0 [] c = "1" -> 1 [] c = "2" -> 2 [] c = "3" -> 3
      [] c = "4" -> 4 [] c = "5" -> 5 [] c = "6" -> 6 [] c = "7" -> 7
      [] c = "8" -> 8 [] c = "9" -> 9
      [] c = "a" -> 10 [] c = "b" -> 11 [] c = "c" -> 12
      [] c = "d" -> 13 [] c = "e" -> 14 [] c = "f" -> 15
      [] c = "A" -> 10 [] c = "B" -> 11 [] c = "C" -> 12
      [] c = "D" -> 13 [] c = "E" -> 14 [] c = "F" -> 15
      [] OTHER -> -1

\* hex.DecodeString: an error for an odd length or a character that is no
\* hex digit, else one byte per two digits
DecodeString(str) ==
    IF Len(str) % 2 = 1 \/ \E i \in 1..Len(str) : FromHexChar(str[i]) < 0
    THEN [err |-> TRUE, bytes |-> <<>>]
    ELSE [err |-> FALSE,
          bytes |-> [i \in 1..(Len(str) \div 2) |->
                        16 * FromHexChar(str[2 * i - 1]) + FromHexChar(str[2 * i])]]

RECURSIVE SumOf(_)
SumOf(bytes) == IF bytes = <<>> THEN 0 ELSE Head(bytes) + SumOf(Tail(bytes))

\* a XOR b on n bits
RECURSIVE Xor(_, _, _)
Xor(a, b, n) ==
    IF n = 0 THEN 0
    ELSE ((a + b) % 2) + 2 * Xor(a \div 2, b \div 2, n - 1)

\* argon2.IDKey: keyLen bytes that depend on the password, the salt and the
\* cost parameters and on nothing else
IDKey(password, salt, time, memory, threads, keyLen) ==
    [i \in 1..keyLen |->
        (31 * SumOf(password) + 7 * Len(password) + SumOf(salt)
            + time + memory + threads + 11 * i) % 256]

\* []byte("fixed-salt-1234")
EsubSalt == <<102, 105, 120, 101, 100, 45, 115, 97, 108, 116, 45, 49, 50, 51, 52>>

\* esub.deriveKey
deriveKey(key) == IDKey(key, EsubSalt, 3, 64 * 1024, 4, KeySize)

\* chacha20.NewUnauthenticatedCipher: an error unless the key has 32 bytes and
\* the nonce 12 or 24; the cipher is its key stream, a function of key and
\* nonce only
KeyStream(key, nonce, n) ==
    [i \in 1..n |->
        (key[i] + 3 * key[i + 16] + 5 * nonce[i] + 13 * nonce[(i % Len(nonce)) + 1]
            + SumOf(nonce) + i) % 256]

NewUnauthenticatedCipher(key, nonce) ==
    IF Len(key) # KeySize \/ Len(nonce) \notin {NonceSize, 2 * NonceSize}
    THEN [err |-> TRUE, stream |-> <<>>]
    ELSE [err |-> FALSE, stream |-> KeyStream(key, nonce, NonceSize)]

\* cipher.XORKeyStream(dst, src)
XORKeyStream(stream, src) == [i \in 1..Len(src) |-> Xor(src[i], stream[i], 8)]

\* sha3.Sum256([]byte("text"))[:12]
TextHash12 == <<152, 123, 67, 219, 212, 185, 199, 27, 220, 159, 98, 98>>

\* mutant of esubgen: the ciphertext is put before the nonce
esubgen_CipherFirst(key, nonce) ==
    LET cipher == NewUnauthenticatedCipher(deriveKey(key), nonce)
    IN  IF cipher.err THEN [panic |-> TRUE, token |-> <<>>]
        ELSE [panic |-> FALSE,
              token |-> EncodeToString(XORKeyStream(cipher.stream, TextHash12) \o nonce)]

\* esub.esubgen for the nonce rand.Read has drawn
esubgen(key, nonce) ==
    LET cipher == NewUnauthenticatedCipher(deriveKey(key), nonce)
    IN  IF cipher.err THEN [panic |-> TRUE, token |-> <<>>]
        ELSE [panic |-> FALSE,
              token |-> EncodeToString(nonce \o XORKeyStream(cipher.stream, TextHash12))]

\* mutant of esubtest: the key is derived before the token is looked at
esubtest_DeriveFirst(key, subject) ==
    LET decoded == DecodeString(subject)
    IN  IF Len(subject) # EsubLen
        THEN [result |-> FALSE, work |-> <<"deriveKey">>]
        ELSE IF decoded.err \/ Len(decoded.bytes) # EsubBytes
        THEN [result |-> FALSE, work |-> <<"deriveKey", "hex.DecodeString">>]
        ELSE LET nonce == SubSeq(decoded.bytes, 1, NonceSize)
                 receivedCiphertext == SubSeq(decoded.bytes, NonceSize + 1, EsubBytes)
                 cipher == NewUnauthenticatedCipher(deriveKey(key), nonce)
             IN  IF cipher.err
                 THEN [result |-> FALSE,
                       work |-> <<"deriveKey", "hex.DecodeString",
                                  "chacha20.NewUnauthenticatedCipher">>]
                 ELSE [result |-> EncodeToString(XORKeyStream(cipher.stream, TextHash12))
                                     = EncodeToString(receivedCiphertext),
                       work |-> <<"deriveKey", "hex.DecodeString",
                                  "chacha20.NewUnauthenticatedCipher", "cipher.XORKeyStream">>]

\* esub.esubtest: the result, and the calls made on the way in their order
esubtest(key, subject) ==
    LET decoded == DecodeString(subject)
    IN  IF Len(subject) # EsubLen
        THEN [result |-> FALSE, work |-> <<>>]
        ELSE IF decoded.err \/ Len(decoded.bytes) # EsubBytes
        THEN [result |-> FALSE, work |-> <<"hex.DecodeString">>]
        ELSE LET nonce == SubSeq(decoded.bytes, 1, NonceSize)
                 receivedCiphertext == SubSeq(decoded.bytes, NonceSize + 1, EsubBytes)
                 cipher == NewUnauthenticatedCipher(deriveKey(key), nonce)
             IN  IF cipher.err
                 THEN [result |-> FALSE,
                       work |-> <<"hex.DecodeString", "deriveKey",
                                  "chacha20.NewUnauthenticatedCipher">>]
                 ELSE [result |-> EncodeToString(XORKeyStream(cipher.stream, TextHash12))
                                     = EncodeToString(receivedCiphertext),
                       work |-> <<"hex.DecodeString", "deriveKey",
                                  "chacha20.NewUnauthenticatedCipher", "cipher.XORKeyStream">>]

\* keys (byte strings) and nonces of the esub specification
EsubKeys == { <<>>, <<107>> }
Nonces ==
    { [i \in 1..NonceSize |-> 0],
      <<255, 1, 16, 171, 15, 240, 9, 10, 127, 128, 200, 99>> }

\* strings.ToUpper on the hex digits
UpperOf(c) ==
    CASE c = "a" -> "A" [] c = "b" -> "B" [] c = "c" -> "C"
      [] c = "d" -> "D" [] c = "e" -> "E" [] c = "f" -> "F"
      [] OTHER -> c

\* what may be put into e.subject, given a token t: the token, the token cut,
\* extended, with a letter that is no hex digit, with a blank, in upper case,
\* with another last digit, and the empty string
SubjectsFrom(t) ==
    { t,
      SubSeq(t, 1, Len(t) - 1),
      SubSeq(t, 1, Len(t) - 2),
      t \o <<"0">>,
      t \o <<"0", "0">>,
      [t EXCEPT ![5] = "g"],
      [t EXCEPT ![Len(t)] = " "],
      [i \in 1..Len(t) |-> UpperOf(t[i])],
      [t EXCEPT ![Len(t)] = IF t[Len(t)] = "0" THEN "1" ELSE "0"],
      <<>> }

NoGen == [called |-> FALSE, key |-> <<>>, nonce |-> <<>>, token |-> <<>>]
NoTest == [called |-> FALSE, key |-> <<>>, subject |-> <<>>, result |-> FALSE, work |-> <<>>]

\* e := esub{key: ...}; e.esubgen(): rand.Read fills the nonce or fails, and
\* a failure panics
Esubgen ==
    /\ ~crashed
    /\ version = 1
    /\ \/ \E nonce \in Nonces :
             LET r == esubgen(esubKey, nonce)
             IN  IF r.panic
                 THEN /\ crashed' = TRUE
                      /\ UNCHANGED esubGen
                 ELSE /\ esubGen' = [called |-> TRUE, key |-> esubKey,
                                     nonce |-> nonce, token |-> r.token]
                      /\ UNCHANGED crashed
       \/ /\ crashed' = TRUE
          /\ UNCHANGED esubGen
    /\ UNCHANGED <<esubKey, esubSubject, esubTest>>
    /\ UNCHANGED <<version, rejected, edits, Entries, sessions, uiQueue, UIOnly, TplVars>>

\* another key is put into e.key
EsubSetKey ==
    /\ ~crashed
    /\ version = 1
    /\ \E k \in EsubKeys \ {esubKey} : esubKey' = k
    /\ UNCHANGED <<esubSubject, esubGen, esubTest>>
    /\ UNCHANGED <<version, rejected, crashed, edits, Entries, sessions, uiQueue, UIOnly,
                   TplVars>>

\* a received subject is put into e.subject
EsubSetSubject ==
    /\ ~crashed
    /\ version = 1
    /\ esubGen.called
    /\ \E t \in SubjectsFrom(esubGen.token) \ {esubSubject} : esubSubject' = t
    /\ UNCHANGED <<esubKey, esubGen, esubTest>>
    /\ UNCHANGED <<version, rejected, crashed, edits, Entries, sessions, uiQueue, UIOnly,
                   TplVars>>

\* e.esubtest()
Esubtest ==
    /\ ~crashed
    /\ version = 1
    /\ LET r == esubtest(esubKey, esubSubject)
       IN  esubTest' = [called |-> TRUE, key |-> esubKey, subject |-> esubSubject,
                        result |-> r.result, work |-> r.work]
    /\ UNCHANGED <<esubKey, esubSubject, esubGen>>
    /\ UNCHANGED <<version, rejected, crashed, edits, Entries, sessions, uiQueue, UIOnly,
                   TplVars>>

----------------------------------------------------------------------------
(* The template list *)

Template(name, description, headers, body) ==
    [name |-> name, description |-> description, headers |-> headers, body |-> body]

\* the list loadTemplates makes when there is no template file
DefaultTemplates == <<Template("Standard", "Default email template", <<>>, <<>>)>>

\* template lists loadTemplates can read from the file, names distinct
TemplateFiles ==
    { <<>>,
      <<Template("A", "", <<"X", ":", " ", "1">>, <<" ", "B", LF>>),
        Template("Standard", "d", <<>>, <<"B">>)>> }

TemplateNames == {"", "Standard", "A", "B"}
TemplateDescs == {"", "d"}

\* the names of a list, in order
NamesOf(list) == [i \in 1..Len(list) |-> list[i].name]

\* mutant of putTemplate: the new template is always appended
putTemplate_AlwaysAppend(list, newTemplate) == Append(list, newTemplate)

\* the loop of saveTemplate: the first entry with the name of newTemplate is
\* replaced; if there is none, newTemplate is appended
putTemplate(list, newTemplate) ==
    IF \E i \in 1..Len(list) : list[i].name = newTemplate.name
    THEN LET i == CHOOSE i \in 1..Len(list) :
                      /\ list[i].name = newTemplate.name
                      /\ \A j \in 1..(i - 1) : list[j].name # newTemplate.name
         IN  [list EXCEPT ![i] = newTemplate]
    ELSE Append(list, newTemplate)

\* append(list[:id], list[id+1:]...), id counted from 0
removeTemplate(list, id) == SubSeq(list, 1, id) \o SubSeq(list, id + 2, Len(list))

\* dialog.ShowError on the UI thread
ShowError(text, e) ==
    /\ Len(dialogs) < MaxDialogs
    /\ dialogs' = Append(dialogs, <<0, <<text, e>>>>)

TplRest == <<version, rejected, crashed, edits, hostEnt, portEnt, socksPortEnt, usernameEnt,
             passwordEnt, sessions, uiQueue, statusLabel, labelLog, EsubVars>>

\* the user types a name or a description
TypeTemplateName ==
    /\ \E name \in TemplateNames \ {templateName} : templateName' = name
    /\ UNCHANGED <<templates, selectedTemplate, templateDesc, templateEditor, messageEnt,
                   dialogs, TplRest>>

TypeTemplateDesc ==
    /\ \E desc \in TemplateDescs \ {templateDesc} : templateDesc' = desc
    /\ UNCHANGED <<templates, selectedTemplate, templateName, templateEditor, messageEnt,
                   dialogs, TplRest>>

\* GUI.saveTemplate; saveTemplates returns an error or nil
saveTemplate ==
    /\ IF templateName = ""
       THEN /\ ShowError("Template name is required", "")
            /\ UNCHANGED templates
       ELSE LET newTemplate == Template(templateName, templateDesc,
                                        TrimSpace(templateEditor), TrimSpace(messageEnt))
            IN  /\ Len(putTemplate(templates, newTemplate)) <= MaxTemplates
                /\ templates' = putTemplate(templates, newTemplate)
                /\ \/ UNCHANGED dialogs
                   \/ \E e \in ErrTexts : ShowError("", e)
    /\ UNCHANGED <<selectedTemplate, templateName, templateDesc, templateEditor, messageEnt,
                   TplRest>>

\* GUI.selectTemplate, called by the list with the index of a row
selectTemplate(id) ==
    /\ id \in 0..(Len(templates) - 1)
    /\ selectedTemplate' = id
    /\ templateName' = templates[id + 1].name
    /\ templateDesc' = templates[id + 1].description
    /\ templateEditor' = templates[id + 1].headers
    /\ messageEnt' = templates[id + 1].body
    /\ UNCHANGED <<templates, dialogs, TplRest>>

\* GUI.deleteTemplate; saveTemplates returns an error or nil
deleteTemplate ==
    IF selectedTemplate < 0 \/ selectedTemplate >= Len(templates)
    THEN /\ ShowError("No template selected", "")
         /\ UNCHANGED <<templates, selectedTemplate, templateName, templateDesc,
                        templateEditor, messageEnt, TplRest>>
    ELSE /\ templates' = removeTemplate(templates, selectedTemplate)
         /\ \/ /\ \E e \in ErrTexts : ShowError("", e)
               /\ UNCHANGED <<selectedTemplate, templateName, templateDesc, templateEditor,
                              messageEnt>>
            \/ /\ templateName' = ""
               /\ templateDesc' = ""
               /\ templateEditor' = <<>>
               /\ messageEnt' = <<>>
               /\ selectedTemplate' = -1
               /\ UNCHANGED dialogs
         /\ UNCHANGED TplRest

\* the "New" button
NewTemplate ==
    /\ templateName' = ""
    /\ templateDesc' = ""
    /\ templateEditor' = <<>>
    /\ messageEnt' = <<>>
    /\ selectedTemplate' = -1
    /\ UNCHANGED <<templates, dialogs, TplRest>>

InitCommon ==
    /\ templates = DefaultTemplates
    /\ selectedTemplate = -1
    /\ templateName = ""
    /\ templateDesc = ""
    /\ templateEditor = <<>>
    /\ esubKey = <<107>>
    /\ esubSubject = <<>>
    /\ esubGen = NoGen
    /\ esubTest = NoTest
    /\ version \in {1, 2}
    /\ hostEnt = "h1"
    /\ portEnt = "25"
    /\ socksPortEnt = "9050"
    /\ usernameEnt = "u"
    /\ passwordEnt \in Passwords
    /\ sessions = <<>>
    /\ uiQueue = <<>>
    /\ labelLog = <<>>
    /\ statusLabel = <<"Ready to send", "">>
    /\ dialogs = <<>>
    /\ rejected = 0
    /\ crashed = FALSE
    /\ edits = 0

Init ==
    /\ InitCommon
    /\ messageEnt \in PipeTexts

\* the steps of the background tasks
Task ==
    \E sid \in 1..MaxSessions :
        \/ Begin(sid)
        \/ ProxyConnect(sid)
        \/ TCPDial(sid)
        \/ SMTPHandshake(sid)
        \/ StartTLS(sid)
        \/ Auth(sid)
        \/ MailFrom(sid)
        \/ RcptTo(sid)
        \/ Data(sid)
        \/ Write(sid)
        \/ Return(sid)

\* one send session at a time, with a user who edits the entries meanwhile
Next ==
    \/ SendEmail(1, MaxRejected)
    \/ Task
    \/ UIRun
    \/ EditConfig
    \/ LoadConfig
    \/ ClearCanvas

Spec == Init /\ [][Next]_vars

\* up to MaxSessions send sessions running side by side
InitConc ==
    /\ InitCommon
    /\ messageEnt = Compose(<<LineFrom, LineTo, LineSubject>>, <<LF>>, <<"B">>)

NextConc ==
    \/ SendEmail(MaxSessions, 0)
    \/ Task
    \/ UIRun

SpecConc == InitConc /\ [][NextConc]_vars

\* the assembly alone: one send request per composed text
InitAsm ==
    /\ InitCommon
    /\ passwordEnt = "p"
    /\ messageEnt \in AsmTexts

NextAsm ==
    /\ sessions = <<>>
    /\ rejected = 0
    /\ SendEmail(1, MaxRejected)

SpecAsm == InitAsm /\ [][NextAsm]_vars

\* the esub token alone: tokens are generated, put into a subject as they are
\* or altered, and tested, under changing keys
InitEsub ==
    /\ InitCommon
    /\ version = 1
    /\ passwordEnt = "p"
    /\ messageEnt = <<>>

NextEsub ==
    \/ Esubgen
    \/ EsubSetKey
    \/ EsubSetSubject
    \/ Esubtest

SpecEsub == InitEsub /\ [][NextEsub]_vars

\* the template editor alone; the template functions of the second program
\* (lines 1073-1136, 1169-1177) are those of the first
InitTpl ==
    /\ version = 1
    /\ messageEnt = <<>>
    /\ hostEnt = "h1"
    /\ portEnt = "25"
    /\ socksPortEnt = "9050"
    /\ usernameEnt = "u"
    /\ passwordEnt = "p"
    /\ sessions = <<>>
    /\ uiQueue = <<>>
    /\ labelLog = <<>>
    /\ statusLabel = <<"Ready to send", "">>
    /\ dialogs = <<>>
    /\ rejected = 0
    /\ crashed = FALSE
    /\ edits = 0
    /\ esubKey = <<107>>
    /\ esubSubject = <<>>
    /\ esubGen = NoGen
    /\ esubTest = NoTest
    /\ templates \in {DefaultTemplates} \cup TemplateFiles
    /\ selectedTemplate = -1
    /\ templateName = ""
    /\ templateDesc = ""
    /\ templateEditor = <<>>

NextTpl ==
    \/ TypeTemplateName
    \/ TypeTemplateDesc
    \/ saveTemplate
    \/ \E id \in 0..(MaxTemplates - 1) : selectTemplate(id)
    \/ deleteTemplate
    \/ NewTemplate

SpecTpl == InitTpl /\ [][NextTpl]_vars

----------------------------------------------------------------------------
(* Properties *)

Sids == 1..Len(sessions)

\* the names of the stages a session has entered, in order
StageNames(s) == [i \in 1..Len(s.stages) |-> s.stages[i][1]]

Entered(s, stage) == \E i \in 1..Len(s.stages) : s.stages[i][1] = stage
Succeeded(s, stage) == \E i \in 1..Len(s.stages) : s.stages[i] = <<stage, TRUE>>
FailedAt(s, stage) == \E i \in 1..Len(s.stages) : s.stages[i] = <<stage, FALSE>>
HasFailed(s) == \E i \in 1..Len(s.stages) : ~s.stages[i][2]

InSeq(x, seq) == \E i \in 1..Len(seq) : seq[i] = x

AllStages == <<"ProxyConnect", "TCPDial", "SMTPHandshake", "StartTLS", "Auth",
               "MailFrom", "RcptTo", "Data", "Write">>
StagesNoAuth == <<"ProxyConnect", "TCPDial", "SMTPHandshake", "StartTLS",
                  "MailFrom", "RcptTo", "Data", "Write">>

IsPrefix(p, q) == Len(p) <= Len(q) /\ SubSeq(q, 1, Len(p)) = p

HasChar(str, c) == \E i \in 1..Len(str) : str[i] = c

\* the address sendEmail extracts for a header key from the composed text
AddressOf(text, key) ==
    extractEmailFromHeaders(parseHeaders(normalizeLineEndings(text)), key)

\* the composed text fails the address precondition
BadAddress(text) ==
    LET from == AddressOf(text, KeyFrom)
        to == AddressOf(text, KeyTo)
    IN  /\ ~from.panic
        /\ ~to.panic
        /\ \/ ~(HasChar(from.email, "@") /\ HasChar(from.email, "."))
           \/ ~(HasChar(to.email, "@") /\ HasChar(to.email, "."))

InvalidDialog == <<0, <<InvalidAddressText, "">>>>

\* C1: while the composed text has a From or To address without '@' or without
\* '.', no step starts a background task, and the step that ends such a send
\* request only raises the "Invalid 'From' or 'To' address" dialog: no session,
\* no status message, no stage.
C1_InvalidAddressStartsNothing ==
    [][ /\ BadAddress(messageEnt) => Len(sessions') = Len(sessions)
        /\ rejected' # rejected =>
              /\ BadAddress(messageEnt)
              /\ sessions' = sessions
              /\ labelLog' = labelLog
              /\ statusLabel' = statusLabel
              /\ \/ dialogs' = Append(dialogs, InvalidDialog) /\ uiQueue' = uiQueue
                 \/ /\ uiQueue' = Append(uiQueue, Item(0, None, InvalidDialog[2], FALSE))
                    /\ dialogs' = dialogs ]_vars

C1_Witness ==
    /\ rejected = 1
    /\ sessions = <<>>
    /\ BadAddress(messageEnt)
    /\ dialogs = <<InvalidDialog>>
    /\ statusLabel = <<"Ready to send", "">>

\* C2: in every session a stage that returned an error is the last stage the
\* session enters: nothing is executed after it.
C2_FailFast ==
    \A sid \in Sids :
        \A i \in 1..Len(sessions[sid].stages) :
            ~sessions[sid].stages[i][2] => i = Len(sessions[sid].stages)

C2_Witness ==
    \E sid \in Sids :
        /\ sessions[sid].pc = "done"
        /\ FailedAt(sessions[sid], "StartTLS")
        /\ ~Entered(sessions[sid], "MailFrom")

\* C3 as claimed: every session that has ended has attempted Quit.
C3_QuitAlways ==
    \A sid \in Sids :
        sessions[sid].pc = "done" => InSeq("client.Quit", sessions[sid].cleanup)

\* C3 amended: a session that has ended has attempted Quit exactly if its
\* SMTPHandshake succeeded, whichever later stage failed and also on success.
C3_QuitIffClient ==
    \A sid \in Sids :
        sessions[sid].pc = "done" =>
            (InSeq("client.Quit", sessions[sid].cleanup)
                <=> Succeeded(sessions[sid], "SMTPHandshake"))

C3_Witness ==
    \E sid \in Sids :
        /\ sessions[sid].pc = "done"
        /\ FailedAt(sessions[sid], "RcptTo")
        /\ InSeq("client.Quit", sessions[sid].cleanup)

\* C4 as claimed: when a session has reported "Email sent successfully", the
\* data sink has been closed and Quit has been attempted.
C4_SuccessAfterCloseAndQuit ==
    \A sid \in Sids :
        InSeq(<<SuccessText, "">>, sessions[sid].emitted) =>
            /\ Succeeded(sessions[sid], "Write")
            /\ InSeq("w.Close", sessions[sid].cleanup)
            /\ InSeq("client.Quit", sessions[sid].cleanup)

IsTerminal(st) ==
    \/ st = <<SuccessText, "">>
    \/ \E i \in 1..Len(AllStages) : st[1] = ErrorText(AllStages[i])

Terminals(s) == {i \in 1..Len(s.emitted) : IsTerminal(s.emitted[i])}

\* the dialogs shown for a session, in order
RECURSIVE DialogsOf(_, _)
DialogsOf(sid, ds) ==
    IF ds = <<>> THEN <<>>
    ELSE (IF Head(ds)[1] = sid THEN <<Head(ds)[2]>> ELSE <<>>) \o DialogsOf(sid, Tail(ds))

\* the functions of a session still waiting for the UI thread
RECURSIVE PendingOf(_, _)
PendingOf(sid, q) ==
    IF q = <<>> THEN <<>>
    ELSE (IF Head(q).sid = sid THEN <<Head(q)>> ELSE <<>>) \o PendingOf(sid, Tail(q))

\* C5: a session reports at most one terminal status and nothing after it; once
\* its task returns it has reported exactly one: the success status if no
\* stage failed, else the error status of the stage that failed with that
\* call's error text. The cleanup adds no status and no dialog, whether it
\* fails or not: a session that has ended and whose reports have all reached
\* the UI thread has shown the one error dialog of its failed stage, or none.
C5_OneTerminalStatus ==
    \A sid \in Sids :
        LET s == sessions[sid]
            last == s.emitted[Len(s.emitted)]
        IN  /\ Cardinality(Terminals(s)) <= 1
            /\ Terminals(s) \subseteq {Len(s.emitted)}
            /\ s.pc \in {"return", "done"} =>
                  /\ Terminals(s) = {Len(s.emitted)}
                  /\ ~HasFailed(s) => last = <<SuccessText, "">>
                  /\ \A i \in 1..Len(AllStages) :
                        FailedAt(s, AllStages[i]) =>
                            last = <<ErrorText(AllStages[i]), s.err>>
                  /\ FailedAt(s, "ProxyConnect") => last[1] = "SOCKS Error: "
            /\ (s.pc = "done" /\ PendingOf(sid, uiQueue) = <<>>) =>
                  /\ labelLog[sid][Len(labelLog[sid])] = last
                  /\ ~HasFailed(s) => DialogsOf(sid, dialogs) = <<>>
                  /\ \A i \in 1..Len(AllStages) :
                        FailedAt(s, AllStages[i]) =>
                            DialogsOf(sid, dialogs) = <<<<DialogText(AllStages[i]), s.err>>>>

C5_Witness ==
    \E sid \in Sids :
        /\ sessions[sid].pc = "done"
        /\ FailedAt(sessions[sid], "Data")
        /\ sessions[sid].cleanupFailed
        /\ InSeq("client.Quit", sessions[sid].cleanup)
        /\ PendingOf(sid, uiQueue) = <<>>
        /\ statusLabel = <<"DATA Error: ", sessions[sid].err>>

\* C6: the stages a session has entered are an initial part of the order
\* ProxyConnect, TCPDial, SMTPHandshake, StartTLS, [Auth], MailFrom, RcptTo,
\* Data, Write (so none is entered twice), and every stage before the last
\* entered one has succeeded.
C6_StageOrder ==
    \A sid \in Sids :
        LET s == sessions[sid]
        IN  /\ \/ IsPrefix(StageNames(s), AllStages)
               \/ IsPrefix(StageNames(s), StagesNoAuth)
            /\ \A i \in 1..(Len(s.stages) - 1) : s.stages[i][2]

C6_Witness ==
    \E sid \in Sids :
        /\ StageNames(sessions[sid]) = AllStages
        /\ Succeeded(sessions[sid], "Write")

\* the status texts among the functions of a session waiting for the UI thread
RECURSIVE LabelsOf(_)
LabelsOf(items) ==
    IF items = <<>> THEN <<>>
    ELSE (IF Head(items).label # None THEN <<Head(items).label>> ELSE <<>>)
         \o LabelsOf(Tail(items))

\* C7: for every session, the texts the status label has received, followed by
\* the session's texts still waiting for the UI thread in their queue order,
\* are exactly the texts the session has reported, in the order of reporting.
C7_StatusOrder ==
    \A sid \in Sids :
        labelLog[sid] \o LabelsOf(PendingOf(sid, uiQueue)) = sessions[sid].emitted

C7_Witness ==
    /\ Len(sessions) = 2
    /\ version = 1
    /\ Len(uiQueue) = 2
    /\ uiQueue[1].sid = 2
    /\ uiQueue[2].sid = 1
    /\ Len(labelLog[1]) >= 3
    /\ Len(labelLog[2]) >= 3
    /\ Len(sessions[1].emitted) > Len(labelLog[1])

\* C8: a session enters Auth only directly after a successful StartTLS and only
\* if the username and the password it read were both non-empty; after a
\* successful StartTLS the next stage is Auth if both were non-empty and
\* MailFrom if either was empty.
C8_AuthIffCredentials ==
    \A sid \in Sids :
        LET s == sessions[sid]
            both == s.chkUser # "" /\ s.chkPass # ""
        IN  \A i \in 1..Len(s.stages) :
                /\ s.stages[i][1] = "Auth" =>
                      /\ i > 1
                      /\ s.stages[i - 1] = <<"StartTLS", TRUE>>
                      /\ both
                /\ s.stages[i] = <<"StartTLS", TRUE>> =>
                      /\ s.chkUser # Unread
                      /\ s.chkPass # Unread
                      /\ i = Len(s.stages) => s.pc = (IF both THEN "Auth" ELSE "MailFrom")
                      /\ i < Len(s.stages) =>
                            s.stages[i + 1][1] = (IF both THEN "Auth" ELSE "MailFrom")

C8_Witness ==
    \E sid \in Sids :
        /\ sessions[sid].chkUser = "u"
        /\ sessions[sid].chkPass = ""
        /\ Succeeded(sessions[sid], "StartTLS")
        /\ Succeeded(sessions[sid], "MailFrom")
        /\ ~Entered(sessions[sid], "Auth")

\* the lines of the header block of a text: what precedes the first empty line
HeaderLinesOf(text) == Split(SplitN2(text, CRLFCRLF)[1], CRLF)

HasSeparator(text) == Len(SplitN2(text, CRLFCRLF)) = 2

IsSubjectLine(line) == HasPrefix(ToLower(line), SubjectPrefix)

\* the synthesized header lines of a session, Message-ID before Date
SynthLines(s) ==
    (IF s.messageIDHeader # <<>> THEN <<TrimRight(s.messageIDHeader, {CR, LF})>> ELSE <<>>)
    \o (IF s.dateHeader # <<>> THEN <<TrimRight(s.dateHeader, {CR, LF})>> ELSE <<>>)

RECURSIVE Without(_, _)
Without(lines, drop) ==
    IF lines = <<>> THEN <<>>
    ELSE (IF InSeq(Head(lines), drop) THEN <<>> ELSE <<Head(lines)>>)
         \o Without(Tail(lines), drop)

FirstSubject(lines) ==
    CHOOSE i \in 1..Len(lines) :
        /\ IsSubjectLine(lines[i])
        /\ \A j \in 1..(i - 1) : ~IsSubjectLine(lines[j])

\* C9 as claimed, for texts with a header/body separator: when the header
\* block has a Subject line and a Message-ID or Date is synthesized, the
\* header block of the assembled message is the original one up to its
\* Subject line, then the synthesized lines (Message-ID before Date), and
\* without the synthesized lines it is the original header block.
C9_SynthAfterSubject ==
    \A sid \in Sids :
        LET s == sessions[sid]
            lines == HeaderLinesOf(s.rawContent)
            out == HeaderLinesOf(s.message)
            synth == SynthLines(s)
        IN  (/\ HasSeparator(s.rawContent)
             /\ \E i \in 1..Len(lines) : IsSubjectLine(lines[i])
             /\ synth # <<>>) =>
                LET i == FirstSubject(lines)
                IN  /\ Len(out) >= i + Len(synth)
                    /\ SubSeq(out, 1, i) = SubSeq(lines, 1, i)
                    /\ SubSeq(out, i + 1, i + Len(synth)) = synth
                    /\ Without(out, synth) = lines

\* C10 as claimed: when the text has a header/body separator, its header block
\* has no Subject line and a Message-ID or Date is synthesized, the assembled
\* message is the original header block, then the synthesized lines, then the
\* empty line and the original body.
C10_SynthAtEndOfHeaders ==
    \A sid \in Sids :
        LET s == sessions[sid]
            parts == SplitN2(s.rawContent, CRLFCRLF)
            lines == HeaderLinesOf(s.rawContent)
            synth == SynthLines(s)
        IN  (/\ HasSeparator(s.rawContent)
             /\ \A i \in 1..Len(lines) : ~IsSubjectLine(lines[i])
             /\ synth # <<>>) =>
                SplitN2(s.message, CRLFCRLF) = <<Join(lines \o synth, CRLF), parts[2]>>

\* C11 as claimed: when the normalized text has a header/body separator, the
\* assembled message splits at its first empty line into a header block and
\* exactly the original body, whether zero, one or two lines were synthesized.
C11_OneBlankLine ==
    \A sid \in Sids :
        LET s == sessions[sid]
            parts == SplitN2(s.rawContent, CRLFCRLF)
            out == SplitN2(s.message, CRLFCRLF)
        IN  HasSeparator(s.rawContent) =>
                /\ Len(out) = 2
                /\ out[2] = parts[2]

\* every LF of str is preceded by exactly one CR
OneCRBeforeEachLF(str) ==
    \A i \in 1..Len(str) :
        str[i] = LF =>
            /\ i > 1
            /\ str[i - 1] = CR
            /\ i > 2 => str[i - 2] # CR

\* every LF of str is preceded by a CR
UsesCRLF(str) ==
    \A i \in 1..Len(str) : str[i] = LF => (i > 1 /\ str[i - 1] = CR)

\* C12 as claimed: the normalized text of a send request has exactly one CR
\* before every LF, equals the composed text when that text already used CRLF,
\* and is left unchanged by a second normalization.
C12_NormalizeToCRLF ==
    \A sid \in Sids :
        LET out == sessions[sid].rawContent
        IN  /\ out = normalizeLineEndings(messageEnt)
            /\ OneCRBeforeEachLF(out)
            /\ UsesCRLF(messageEnt) => out = messageEnt
            /\ normalizeLineEndings(out) = out

\* C13 as claimed: the text From, To, Subject, empty line, body, typed with
\* CRLF line endings, is assembled to From, To, Subject, Message-ID, Date, the
\* empty line and the body.
C13_EndToEndCRLF ==
    \A sid \in Sids :
        LET s == sessions[sid]
        IN  messageEnt = Compose(<<LineFrom, LineTo, LineSubject>>, CRLF, <<"B">>) =>
                /\ Len(SynthLines(s)) = 2
                /\ s.message =
                       Join(<<LineFrom, LineTo, LineSubject>> \o SynthLines(s), CRLF)
                           \o CRLFCRLF \o <<"B">>

\* a line generateMessageID / the clock can have produced
IsSynthMessageID(line) == \E id \in GeneratedIDs : line = MessageIDName \o id
IsSynthDate(line) == \E date \in GeneratedDates : line = DateName \o date

\* C14 as claimed: the assembled message has a synthesized Message-ID line
\* exactly if the parsed headers have no "message-id" key and a synthesized
\* Date line exactly if they have no "date" key, and every Message-ID or Date
\* line of the text, in any letter case, is a line of the assembled message.
C14_SynthIffMissing ==
    \A sid \in Sids :
        LET s == sessions[sid]
            headers == parseHeaders(s.rawContent)
            inLines == Split(s.rawContent, CRLF)
            outLines == Split(s.message, CRLF)
        IN  /\ (\E i \in 1..Len(outLines) : IsSynthMessageID(outLines[i]))
                  <=> KeyMessageID \notin DOMAIN headers
            /\ (\E i \in 1..Len(outLines) : IsSynthDate(outLines[i]))
                  <=> KeyDate \notin DOMAIN headers
            /\ \A i \in 1..Len(inLines) :
                  (\/ HasPrefix(ToLower(inLines[i]), KeyMessageID \o <<":">>)
                   \/ HasPrefix(ToLower(inLines[i]), KeyDate \o <<":">>))
                      => InSeq(inLines[i], outLines)

\* C15 as claimed: no send request ends in a runtime fault; whatever the
\* composed text, sendEmail returns after the precondition error or starts a
\* session.
C15_NoRuntimeFault == ~crashed

\* the position of the last c in str
LastPos(str, c) ==
    CHOOSE i \in 1..Len(str) : str[i] = c /\ \A j \in (i + 1)..Len(str) : str[j] # c

\* the address the extraction rule gives for a key of the header map
RuleAddress(headers, key) ==
    IF key \notin DOMAIN headers THEN <<>>
    ELSE LET value == headers[key]
         IN  IF HasChar(value, "<") /\ HasChar(value, ">")
             THEN SubSeq(value, LastPos(value, "<"), LastPos(value, ">"))
             ELSE value

\* C16 as claimed: every extraction returns, and the From and To addresses of
\* a session are the ones the rule gives for the parsed headers: the part from
\* the last '<' to the last '>' when the value has both, else the raw value.
C16_ExtractRule ==
    /\ ~crashed
    /\ \A sid \in Sids :
          LET s == sessions[sid]
              headers == parseHeaders(s.rawContent)
          IN  /\ s.from = RuleAddress(headers, KeyFrom)
              /\ s.to = RuleAddress(headers, KeyTo)

\* the lines parseHeaders reads: those before the first empty line
ReadLines(rawContent) ==
    LET lines == HeaderLinesOf(rawContent)
        empty == {i \in 1..Len(lines) : lines[i] = <<>>}
        stop == IF empty = {} THEN Len(lines) + 1
                ELSE CHOOSE i \in empty : \A j \in empty : i <= j
    IN  SubSeq(lines, 1, stop - 1)

\* key and value of a line that has a ": "
KeyOfLine(line) == TrimSpace(ToLower(SubSeq(line, 1, Index(line, ColonSpace) - 1)))
ValueOfLine(line) == TrimSpace(SubSeq(line, Index(line, ColonSpace) + 2, Len(line)))

\* C17: the header map of a session's normalized text has exactly the keys of
\* the lines before the first empty line that contain ": " (the part before
\* the first ": ", lowercased and trimmed), lines without ": " being skipped
\* without ending the parse, and each key maps to the trimmed rest of the last
\* line with that key; the session's To address is taken from that map.
C17_ParsedHeaders ==
    \A sid \in Sids :
        LET s == sessions[sid]
            headers == parseHeaders(s.rawContent)
            lines == ReadLines(s.rawContent)
            pairs == {i \in 1..Len(lines) : Contains(lines[i], ColonSpace)}
        IN  /\ DOMAIN headers = {KeyOfLine(lines[i]) : i \in pairs}
            /\ \A i \in pairs :
                  (\A j \in pairs : j > i => KeyOfLine(lines[j]) # KeyOfLine(lines[i]))
                      => headers[KeyOfLine(lines[i])] = ValueOfLine(lines[i])
            /\ s.to = RuleAddress(headers, KeyTo)

C17_Witness ==
    \E sid \in Sids :
        /\ messageEnt = Compose(<<LineFrom, LineBare, LineToLower, LineTo>>, <<LF>>, BodyDate)
        /\ DOMAIN parseHeaders(sessions[sid].rawContent) = {KeyFrom, KeyTo}
        /\ sessions[sid].to = <<"b", "@", "y", ".", "d">>
        /\ sessions[sid].dateHeader # <<>>

\* C20 as claimed: every synthesized line of a session is one of the lines of
\* the assembled message that come before its first empty line, whether or not
\* the text had a header/body separator.
C20_SynthInHeaderBlock ==
    \A sid \in Sids :
        LET s == sessions[sid]
            out == HeaderLinesOf(s.message)
            synth == SynthLines(s)
        IN  \A i \in 1..Len(synth) : InSeq(synth[i], out)

HexLower == {"0", "1", "2", "3", "4", "5", "6", "7", "8", "9", "a", "b", "c", "d", "e", "f"}
HexChars == HexLower \cup {"A", "B", "C", "D", "E", "F"}

\* C18: a token esubgen has returned is 48 lower-case hex characters, the
\* first 24 being the hex form of the nonce drawn and the last 24 the hex form
\* of the 12 bytes of the hash of "text" XORed with the key stream of the
\* derived key and that nonce; and esubtest, called with the key and the token
\* of that esubgen call, has returned true.
C18_RoundTrip ==
    /\ esubGen.called =>
          /\ Len(esubGen.token) = 48
          /\ \A i \in 1..Len(esubGen.token) : esubGen.token[i] \in HexLower
          /\ DecodeString(SubSeq(esubGen.token, 1, 24)).bytes = esubGen.nonce
          /\ Len(esubGen.nonce) = 12
          /\ DecodeString(SubSeq(esubGen.token, 25, 48)).bytes =
                 XORKeyStream(KeyStream(deriveKey(esubGen.key), esubGen.nonce, 12), TextHash12)
    /\ (/\ esubTest.called
        /\ esubGen.called
        /\ esubTest.key = esubGen.key
        /\ esubTest.subject = esubGen.token) => esubTest.result

C18_Witness ==
    /\ esubGen.called
    /\ esubGen.key = <<>>
    /\ esubGen.nonce[1] = 255
    /\ esubTest.called
    /\ esubTest.key = esubGen.key
    /\ esubTest.subject = esubGen.token
    /\ esubTest.result

\* C19: when esubtest has been called with a subject that is not 48 characters
\* long or has a character that is no hex digit, it has returned false, and it
\* has made no call of deriveKey or of the cipher before returning.
C19_MalformedRejected ==
    (/\ esubTest.called
     /\ \/ Len(esubTest.subject) # 48
        \/ \E i \in 1..Len(esubTest.subject) : esubTest.subject[i] \notin HexChars) =>
        /\ ~esubTest.result
        /\ \A i \in 1..Len(esubTest.work) : esubTest.work[i] = "hex.DecodeString"

C19_Witness ==
    /\ esubTest.called
    /\ Len(esubTest.subject) = 48
    /\ esubTest.subject[5] = "g"
    /\ ~esubTest.result
    /\ esubTest.work = <<"hex.DecodeString">>

\* C21 as claimed: the assembled message of a session has at most one
\* synthesized Message-ID line and at most one synthesized Date line.
C21_AtMostOneSynth ==
    \A sid \in Sids :
        LET outLines == Split(sessions[sid].message, CRLF)
        IN  /\ Cardinality({i \in 1..Len(outLines) : IsSynthMessageID(outLines[i])}) <= 1
            /\ Cardinality({i \in 1..Len(outLines) : IsSynthDate(outLines[i])}) <= 1

\* C22 as claimed: whatever a stage of a session has read of the connection
\* settings is the value in force when the send was requested: SOCKS port,
\* dial host and port, greeting host, the credentials tested and the
\* credentials and host given to PLAIN auth.
C22_SettingsOfRequest ==
    \A sid \in Sids :
        LET s == sessions[sid]
        IN  /\ s.socksUsed \in {Unread, s.req.socksPort}
            /\ s.dialHost \in {Unread, s.req.host}
            /\ s.dialPort \in {Unread, s.req.port}
            /\ s.heloHost \in {Unread, s.req.host}
            /\ s.chkUser \in {Unread, s.req.username}
            /\ s.chkPass \in {Unread, s.req.password}
            /\ s.authUser \in {Unread, s.req.username}
            /\ s.authPass \in {Unread, s.req.password}
            /\ s.authHost \in {Unread, s.req.host}

\* C23: the cleanup of a session that has ended is, in this order, the close of
\* the data sink if Data succeeded, Quit if SMTPHandshake succeeded, and the
\* close of the connection if TCPDial succeeded, and nothing else; so the
\* connection of every session whose TCPDial succeeded is closed, last, on
\* success and after a failure of any later stage.
C23_CleanupOrder ==
    \A sid \in Sids :
        LET s == sessions[sid]
        IN  s.pc = "done" =>
                s.cleanup =
                    (IF Succeeded(s, "Data") THEN <<"w.Close">> ELSE <<>>)
                    \o (IF Succeeded(s, "SMTPHandshake") THEN <<"client.Quit">> ELSE <<>>)
                    \o (IF Succeeded(s, "TCPDial") THEN <<"conn.Close">> ELSE <<>>)

C23_Witness ==
    \E sid \in Sids :
        /\ sessions[sid].pc = "done"
        /\ FailedAt(sessions[sid], "Write")
        /\ sessions[sid].cleanup = <<"w.Close", "client.Quit", "conn.Close">>

DistinctNames(list) ==
    \A i, j \in 1..Len(list) : i # j => list[i].name # list[j].name

\* the template saveTemplate builds from the entries
EnteredTemplate ==
    Template(templateName, templateDesc, TrimSpace(templateEditor), TrimSpace(messageEnt))

NameRequired == <<0, <<"Template name is required", "">>>>

\* C24: the names of the template list are pairwise distinct in every state;
\* a step that changes the list without changing its length replaces the one
\* entry that has the entered name by the entered template and leaves the
\* others, a step that lengthens the list appends the entered template, whose
\* name is not empty and was not in the list, and with an empty name entered
\* no step adds or replaces an entry: the save only raises its dialog.
C24_DistinctNames ==
    /\ []DistinctNames(templates)
    /\ [][ /\ (Len(templates') = Len(templates) /\ templates' # templates) =>
                \E i \in 1..Len(templates) :
                    /\ templates[i].name = templateName
                    /\ templates' = [templates EXCEPT ![i] = EnteredTemplate]
           /\ Len(templates') > Len(templates) =>
                /\ templateName # ""
                /\ \A i \in 1..Len(templates) : templates[i].name # templateName
                /\ templates' = Append(templates, EnteredTemplate)
           /\ (templateName = "" /\ Len(templates') >= Len(templates)) =>
                templates' = templates
           /\ dialogs' = Append(dialogs, NameRequired) =>
                /\ templateName = ""
                /\ UNCHANGED <<templates, TplVars, messageEnt>> ]_vars

C24_Witness ==
    /\ NamesOf(templates) = <<"A", "Standard", "B">>
    /\ templates[2].description = ""
    /\ templates[1].body = <<" ", "B", LF>>
    /\ templates[3].body = <<"B">>
    /\ dialogs = <<NameRequired>>

ValidSelection ==
    \/ selectedTemplate = -1
    \/ selectedTemplate \in 0..(Len(templates) - 1)

\* C25 as claimed: in every state selectedTemplate is -1 or an index of the
\* template list, and every step that shortens the list removes exactly the
\* entry that was selected, keeps the others in their order and leaves
\* selectedTemplate at -1.
C25_SelectionValid ==
    /\ []ValidSelection
    /\ [][ Len(templates') < Len(templates) =>
              /\ selectedTemplate \in 0..(Len(templates) - 1)
              /\ Len(templates') = Len(templates) - 1
              /\ \A i \in 1..Len(templates') :
                    templates'[i] = templates[IF i <= selectedTemplate THEN i ELSE i + 1]
              /\ selectedTemplate' = -1 ]_vars

====
